---- MODULE Spec2Model ----
(***************************************************************************)
(* Model of convert_html_to_images.py: compose_slide (the image            *)
(* composition geometry, computed in IEEE-754 binary64 as Python does) and *)
(* html_to_slide_image (capture, compose, save with the overwrite-or-skip  *)
(* policy).                                                                *)
(***************************************************************************)
EXTENDS Integers, Sequences, FiniteSets

VARIABLES
    image,             \* the source bitmap's size <<width, height>>
    slide_size,        \* the target <<width, height>>
    mode,              \* "fit" or "fill"
    focus_x, focus_y,  \* the focus, two floats
    background_color,  \* an RGB triple
    result,            \* what compose_slide returned or raised
    pc,                \* where the call in progress stands
    overwrite,         \* html_to_slide_image's overwrite argument
    output_file,       \* the output PNG on disk
    launches,          \* browsers launched so far
    composed           \* compose_slide calls made by html_to_slide_image

vars == <<image, slide_size, mode, focus_x, focus_y, background_color,
          result, pc, overwrite, output_file, launches, composed>>

(***************************************************************************)
(* Bounds of the model.                                                    *)
(***************************************************************************)
\* Source and target sides are drawn from 0..MaxDim (plus the named sizes below).
MaxDim == 3
\* html_to_slide_image launches the browser at most MaxLaunches times in one
\* behaviour.
MaxLaunches == 2
\* Canvases up to PixelScan on a side are compared pixel by pixel; larger
\* ones at the pixels beside the edges of the pasted or cropped rectangle.
PixelScan == 16

(***************************************************************************)
(* Python float (binary64) arithmetic on the values compose_slide uses.    *)
(* A float is [s, e, m]: sign s in {-1, 0, 1}, exponent e, and m a tuple   *)
(* of five limbs in base 2^13 with value                                   *)
(*   s * (m[1] + m[2]/L + m[3]/L^2 + m[4]/L^3 + m[5]/L^4) * 2^e.            *)
(* A normalised float has m[1] = 1, so m[2..5] are its 52 fraction bits.   *)
(***************************************************************************)
Limb == 2 ^ 13

FloatZero == [s |-> 0, e |-> 0, m |-> <<0, 0, 0, 0, 0>>]

FloatOne == [s |-> 1, e |-> 0, m |-> <<1, 0, 0, 0, 0>>]

Abs(x) == IF x < 0 THEN -x ELSE x

\* m + inc at the last limb, carries propagated to the leading limb.
AddCarry(m, inc) ==
    LET t5 == m[5] + inc
        t4 == m[4] + (t5 \div Limb)
        t3 == m[3] + (t4 \div Limb)
        t2 == m[2] + (t3 \div Limb)
    IN  <<m[1] + (t2 \div Limb), t2 % Limb, t3 % Limb, t4 % Limb, t5 % Limb>>

\* The exponent k of a / b: b * 2^k <= a < b * 2^(k+1), for a, b > 0.
Exponent(a, b) ==
    CHOOSE k \in -16..16 :
        IF k >= 0 THEN b * 2 ^ k <= a /\ a < b * 2 ^ (k + 1)
                  ELSE b <= a * 2 ^ (-k) /\ a * 2 ^ (-k) < 2 * b

\* a / b for integers a and b > 0: the quotient rounded to nearest, ties to
\* even, at 53 significant bits (true division of Python ints).
FloatDiv(a, b) ==
    IF a = 0 THEN FloatZero
    ELSE
    LET k  == Exponent(Abs(a), b)
        a2 == Abs(a) * 2 ^ (IF k < 0 THEN -k ELSE 0)
        b2 == b * 2 ^ (IF k > 0 THEN k ELSE 0)
        r0 == a2 - b2
        d1 == (r0 * Limb) \div b2
        r1 == (r0 * Limb) % b2
        d2 == (r1 * Limb) \div b2
        r2 == (r1 * Limb) % b2
        d3 == (r2 * Limb) \div b2
        r3 == (r2 * Limb) % b2
        d4 == (r3 * Limb) \div b2
        r4 == (r3 * Limb) % b2
        up == 2 * r4 > b2 \/ (2 * r4 = b2 /\ d4 % 2 = 1)
        m  == AddCarry(<<1, d1, d2, d3, d4>>, IF up THEN 1 ELSE 0)
        sg == IF a < 0 THEN -1 ELSE 1
    IN  IF m[1] = 2 THEN [s |-> sg, e |-> k + 1, m |-> <<1, 0, 0, 0, 0>>]
                    ELSE [s |-> sg, e |-> k, m |-> m]

\* x < y on floats (normalised or zero).
FloatLess(x, y) ==
    LET MagLess(u, v) ==
            \/ u.e < v.e
            \/ /\ u.e = v.e
               /\ \E i \in 1..5 : /\ u.m[i] < v.m[i]
                                  /\ \A j \in 1..(i - 1) : u.m[j] = v.m[j]
    IN  IF x.s # y.s THEN x.s < y.s
        ELSE IF x.s = 0 THEN FALSE
        ELSE IF x.s = 1 THEN MagLess(x, y)
        ELSE MagLess(y, x)

\* Python's max(x, y) and min(x, y): the first argument unless the second
\* is strictly greater (smaller).
FloatMax(x, y) == IF FloatLess(x, y) THEN y ELSE x

FloatMin(x, y) == IF FloatLess(y, x) THEN y ELSE x

\* The number of bits of n >= 1.
BitLength(n) == CHOOSE b \in 1..30 : 2 ^ (b - 1) <= n /\ n < 2 ^ b

\* n * x for an int n >= 0 and a normalised float x: the exact product
\* rounded to nearest, ties to even, at 53 significant bits.  The result
\* keeps x's exponent and carries the integer factor in its leading limb.
FloatMulInt(n, x) ==
    IF n = 0 \/ x.s = 0 THEN FloatZero
    ELSE
    LET p5 == x.m[5] * n
        p4 == x.m[4] * n + (p5 \div Limb)
        p3 == x.m[3] * n + (p4 \div Limb)
        p2 == x.m[2] * n + (p3 \div Limb)
        p1 == x.m[1] * n + (p2 \div Limb)
        drop == BitLength(p1) - 1
        low2 == (p4 % Limb) * Limb + (p5 % Limb)
        rest == low2 % (2 ^ drop)
        odd  == (low2 \div (2 ^ drop)) % 2 = 1
        up   == /\ drop > 0
                /\ \/ 2 * rest > 2 ^ drop
                   \/ 2 * rest = 2 ^ drop /\ odd
        kept == low2 - rest + (IF up THEN 2 ^ drop ELSE 0)
        c3   == kept \div (Limb * Limb)
        q4   == (kept % (Limb * Limb)) \div Limb
        q5   == kept % Limb
        t3   == (p3 % Limb) + c3
        t2   == (p2 % Limb) + (t3 \div Limb)
    IN  [s |-> x.s, e |-> x.e,
         m |-> <<p1 + (t2 \div Limb), t2 % Limb, t3 % Limb, q4, q5>>]

\* int(x) for a float x: truncation toward zero.
IntTrunc(x) ==
    IF x.s = 0 THEN 0
    ELSE IF x.e <= 0
         THEN (IF -x.e >= 30 THEN 0 ELSE x.s * (x.m[1] \div (2 ^ (-x.e))))
    ELSE x.s * (x.m[1] * (2 ^ x.e) + (x.m[2] \div (2 ^ (13 - x.e))))

(***************************************************************************)
(* Bitmaps.  A bitmap is [width, height, origin, content, fill]: pixel     *)
(* (x, y) shows the resampled source at (x - origin[1], y - origin[2])     *)
(* where that lies inside content (the resampled size), and the colour     *)
(* fill elsewhere.                                                         *)
(***************************************************************************)
NoBitmap == [width |-> 0, height |-> 0, origin |-> <<0, 0>>,
             content |-> <<0, 0>>, fill |-> <<0, 0, 0>>]

\* Mutant of ResizeRaises: a resample to an empty size is let through.
ResizeNeverRaises(size) == FALSE

\* Image.resize(size, LANCZOS): Pillow refuses a side below 1 (ValueError).
ResizeRaises(size) == size[1] < 1 \/ size[2] < 1

Resize(size) ==
    [width |-> size[1], height |-> size[2], origin |-> <<0, 0>>,
     content |-> size, fill |-> <<0, 0, 0>>]

\* Image.crop(box): ValueError when right < left or lower < upper.
CropRaises(box) == box[3] < box[1] \/ box[4] < box[2]

\* Mutant of Crop: the box is clipped to the bitmap.
CropClipped(im, box) ==
    LET r == IF box[3] < im.width THEN box[3] ELSE im.width
        b == IF box[4] < im.height THEN box[4] ELSE im.height
    IN  [width |-> r - box[1], height |-> b - box[2],
         origin |-> <<-box[1], -box[2]>>,
         content |-> <<im.width, im.height>>, fill |-> <<0, 0, 0>>]

\* Image.crop(box) of a resampled bitmap: the box's size, whatever the
\* bitmap's; the part of the box outside the bitmap is zero (black).
Crop(im, box) ==
    [width |-> box[3] - box[1], height |-> box[4] - box[2],
     origin |-> <<-box[1], -box[2]>>,
     content |-> <<im.width, im.height>>, fill |-> <<0, 0, 0>>]

\* Image.new("RGB", size, color).
NewImage(size, color) ==
    [width |-> size[1], height |-> size[2], origin |-> <<0, 0>>,
     content |-> <<0, 0>>, fill |-> color]

\* canvas.paste(im, offset): im's pixels over the canvas, clipped to it.
Paste(canvas, im, offset) ==
    [canvas EXCEPT !.origin = offset, !.content = <<im.width, im.height>>]

\* The pixel of a bitmap at (x, y), 0 <= x < width and 0 <= y < height.
Pixel(bm, x, y) ==
    IF /\ 0 <= x - bm.origin[1] /\ x - bm.origin[1] < bm.content[1]
       /\ 0 <= y - bm.origin[2] /\ y - bm.origin[2] < bm.content[2]
    THEN <<"source", x - bm.origin[1], y - bm.origin[2]>>
    ELSE bm.fill

(***************************************************************************)
(* compose_slide                                                           *)
(***************************************************************************)
\* Mutant of ClampFocus: the upper clamp is missing.
ClampFocusLowerOnly(f) == FloatMax(f, FloatZero)

\* min(max(focus, 0.0), 1.0)
ClampFocus(f) == FloatMin(FloatMax(f, FloatZero), FloatOne)

\* The scale factor: max of the two ratios in fill mode, min otherwise.
Scale(img, target, md) ==
    IF md = "fill"
    THEN FloatMax(FloatDiv(target[1], img[1]), FloatDiv(target[2], img[2]))
    ELSE FloatMin(FloatDiv(target[1], img[1]), FloatDiv(target[2], img[2]))

\* new_size = (int(image.width * scale), int(image.height * scale))
NewSize(img, scale) ==
    <<IntTrunc(FloatMulInt(img[1], scale)), IntTrunc(FloatMulInt(img[2], scale))>>

\* max_x = max(new_size[0] - target_w, 0), and max_y likewise.
MaxOffset(scaled, target) == IF scaled - target > 0 THEN scaled - target ELSE 0

\* Mutant of CropOffset: the focus is measured from the far edge.
CropOffsetFromFarEdge(maxOff, f) == maxOff - IntTrunc(FloatMulInt(maxOff, f))

\* left = int(max_x * focus_x), and top likewise (focus already clamped).
CropOffset(maxOff, f) == IntTrunc(FloatMulInt(maxOff, f))

\* Mutant of PasteOffset: the margin is not halved.
PasteOffsetWholeMargin(target, scaled) == target - scaled

\* offset = ((target_w - new_size[0]) // 2, (target_h - new_size[1]) // 2),
\* Python's floor division.
PasteOffset(target, scaled) ==
    LET d == target - scaled
    IN  IF d >= 0 THEN d \div 2 ELSE -((1 - d) \div 2)

Raised(err) ==
    [status |-> err, bitmap |-> NoBitmap, new_size |-> <<0, 0>>,
     left |-> 0, top |-> 0, offset |-> <<0, 0>>]

ComposeSlide(img, target, md, fx, fy, bg) ==
    LET cx == ClampFocus(fx)
        cy == ClampFocus(fy)
    IN
    IF img[1] = 0 \/ img[2] = 0 THEN Raised("ZeroDivisionError")
    ELSE
    LET scale    == Scale(img, target, md)
        new_size == NewSize(img, scale)
    IN
    IF ResizeRaises(new_size)
    THEN [Raised("ValueError") EXCEPT !.new_size = new_size]
    ELSE
    LET resized == Resize(new_size) IN
    IF md = "fill"
    THEN LET max_x == MaxOffset(new_size[1], target[1])
             max_y == MaxOffset(new_size[2], target[2])
             left  == CropOffset(max_x, cx)
             top   == CropOffset(max_y, cy)
             box   == <<left, top, left + target[1], top + target[2]>>
         IN  IF CropRaises(box)
             THEN [Raised("ValueError") EXCEPT !.new_size = new_size]
             ELSE [status |-> "ok", bitmap |-> Crop(resized, box),
                   new_size |-> new_size, left |-> left, top |-> top,
                   offset |-> <<0, 0>>]
    ELSE LET canvas == NewImage(target, bg)
             offset == <<PasteOffset(target[1], new_size[1]),
                         PasteOffset(target[2], new_size[2])>>
         IN  [status |-> "ok", bitmap |-> Paste(canvas, resized, offset),
              new_size |-> new_size, left |-> 0, top |-> 0,
              offset |-> offset]

(***************************************************************************)
(* Inputs.                                                                 *)
(***************************************************************************)
Sides == 0..MaxDim

\* Inputs outside the small square: the least sizes whose scaled side
\* truncates below the target (11 -> 15, 13 -> 15), an extreme aspect
\* ratio, and the three documented scenarios.
NamedInputs == {<<<<11, 11>>, <<15, 15>>>>,
                <<<<11, 13>>, <<15, 15>>>>,
                <<<<22, 11>>, <<30, 15>>>>,
                <<<<4000, 1>>, <<10, 10>>>>,
                <<<<1920, 1080>>, <<3840, 2160>>>>,
                <<<<4000, 2000>>, <<3840, 2160>>>>,
                <<<<2000, 4000>>, <<3840, 2160>>>>}

\* <<source size, target size>>
Inputs == ((Sides \X Sides) \X (Sides \X Sides)) \cup NamedInputs

Modes == {"fit", "fill"}

\* Focus values as the floats nearest -5, 0, 0.3, 0.5, 1 and 99.
FocusValues == {FloatDiv(-5, 1), FloatZero, FloatDiv(3, 10), FloatDiv(1, 2),
                FloatOne, FloatDiv(99, 1)}

\* The default background and the one html_to_slide_image passes.
Colors == {<<255, 255, 255>>, <<5, 5, 8>>}

NoFile == [state |-> "absent", size |-> <<0, 0>>]

(***************************************************************************)
(* Spec: compose_slide applied to every input.                             *)
(***************************************************************************)
Init ==
    /\ \E in \in Inputs : image = in[1] /\ slide_size = in[2]
    /\ mode \in Modes
    /\ focus_x \in FocusValues
    /\ focus_y \in FocusValues
    /\ background_color \in Colors
    /\ result = Raised("none")
    /\ pc = "call"
    /\ overwrite = FALSE
    /\ output_file = NoFile
    /\ launches = 0
    /\ composed = 0

Compose ==
    /\ pc = "call"
    /\ result' = ComposeSlide(image, slide_size, mode, focus_x, focus_y,
                              background_color)
    /\ pc' = IF result'.status = "ok" THEN "returned" ELSE "raised"
    /\ UNCHANGED <<image, slide_size, mode, focus_x, focus_y,
                   background_color, overwrite, output_file, launches,
                   composed>>

Next == Compose

Spec == Init /\ [][Next]_vars

(***************************************************************************)
(* SpecCli: html_to_slide_image called again and again on one HTML file.   *)
(***************************************************************************)
\* --width and --height are any ints; the screenshot has positive sides.
CliTargets == {<<0, 2>>, <<2, 2>>, <<3, 2>>}

CliSources == {<<1, 1>>, <<2, 1>>, <<4, 1>>}

CliFocus == {FloatDiv(-5, 1), FloatDiv(1, 2)}

\* Mutant of ShouldSkip: the overwrite flag is read the wrong way round.
ShouldSkipFlagInverted(file, ow) == file.state # "absent" /\ ow

\* if output_path.exists() and not overwrite: return
ShouldSkip(file, ow) == file.state # "absent" /\ ~ow

\* slide_image.save(output_path, format="PNG") of a bitmap with an empty
\* side fails after the file was opened for writing: what it leaves on disk
\* depends on the Pillow build (the opened file, or nothing if it was new).
FailedSave(file) ==
    {[state |-> "partial", size |-> <<0, 0>>]}
        \cup (IF file.state = "absent" THEN {NoFile} ELSE {})

Returned == {"idle", "skipped", "saved", "raised"}

InitCli ==
    /\ image = <<0, 0>>
    /\ slide_size = <<0, 0>>
    /\ mode = "fit"
    /\ focus_x = FloatDiv(1, 2)
    /\ focus_y = FloatDiv(1, 2)
    /\ background_color = <<5, 5, 8>>
    /\ result = Raised("none")
    /\ pc = "idle"
    /\ overwrite = FALSE
    /\ output_file \in {NoFile, [state |-> "old", size |-> <<0, 0>>]}
    /\ launches = 0
    /\ composed = 0

\* html_to_slide_image up to the overwrite-or-skip decision.
Call ==
    /\ pc \in Returned
    /\ launches < MaxLaunches
    /\ \E html_is_file \in BOOLEAN, size \in CliTargets, md \in Modes,
          fx \in CliFocus, fy \in CliFocus, ow \in BOOLEAN :
          /\ slide_size' = size
          /\ mode' = md
          /\ focus_x' = fx
          /\ focus_y' = fy
          /\ overwrite' = ow
          /\ pc' = IF ~html_is_file THEN "raised"
                   ELSE IF ShouldSkip(output_file, ow) THEN "skipped"
                   ELSE "capture"
    /\ image' = <<0, 0>>
    /\ result' = Raised("none")
    /\ UNCHANGED <<background_color, output_file, launches, composed>>

\* The browser is launched and the screenshot decoded.
Capture ==
    /\ pc = "capture"
    /\ launches' = launches + 1
    /\ \E shot \in CliSources : image' = shot
    /\ pc' = "compose"
    /\ UNCHANGED <<slide_size, mode, focus_x, focus_y, background_color,
                   result, overwrite, output_file, composed>>

\* The browser is launched and navigation, the selector wait or the
\* screenshot raises.
CaptureFails ==
    /\ pc = "capture"
    /\ launches' = launches + 1
    /\ pc' = "raised"
    /\ UNCHANGED <<image, slide_size, mode, focus_x, focus_y,
                   background_color, result, overwrite, output_file,
                   composed>>

\* compose_slide(image, slide_size, mode, focus_x, focus_y, (5, 5, 8))
ComposeCli ==
    /\ pc = "compose"
    /\ result' = ComposeSlide(image, slide_size, mode, focus_x, focus_y,
                              <<5, 5, 8>>)
    /\ composed' = composed + 1
    /\ pc' = IF result'.status = "ok" THEN "save" ELSE "raised"
    /\ UNCHANGED <<image, slide_size, mode, focus_x, focus_y,
                   background_color, overwrite, output_file, launches>>

\* slide_image.save(output_path, format="PNG")
Save ==
    /\ pc = "save"
    /\ IF result.bitmap.width > 0 /\ result.bitmap.height > 0
       THEN /\ output_file' = [state |-> "png",
                               size |-> <<result.bitmap.width,
                                          result.bitmap.height>>]
            /\ pc' = "saved"
       ELSE /\ output_file' \in FailedSave(output_file)
            /\ pc' = "raised"
    /\ UNCHANGED <<image, slide_size, mode, focus_x, focus_y,
                   background_color, result, overwrite, launches, composed>>

NextCli == Call \/ Capture \/ CaptureFails \/ ComposeCli \/ Save

SpecCli == InitCli /\ [][NextCli]_vars

(***************************************************************************)
(* Properties of compose_slide (checked under Spec).                       *)
(***************************************************************************)
Finished == pc \in {"returned", "raised"}

\* Source and target sides are all at least 1.
ValidInputs ==
    /\ image[1] >= 1 /\ image[2] >= 1
    /\ slide_size[1] >= 1 /\ slide_size[2] >= 1

\* The columns (rows) of a canvas side of length n that are compared: all of
\* them up to PixelScan, else those beside the edges lo and hi of a rectangle.
Scan(n, lo, hi) ==
    IF n <= PixelScan THEN 0..(n - 1)
    ELSE {0, lo - 1, lo, hi - 1, hi, n - 1} \cap 0..(n - 1)

\* C1 (dimension invariant): for source and target sides >= 1, either mode,
\* any focus and background, a bitmap compose_slide returns has exactly the
\* target's width and height.
DimensionInvariant ==
    (pc = "returned" /\ ValidInputs) =>
        /\ result.bitmap.width = slide_size[1]
        /\ result.bitmap.height = slide_size[2]

\* A fill whose crop box reaches past the resampled bitmap returned.
DimensionWitness ==
    /\ pc = "returned" /\ ValidInputs /\ mode = "fill"
    /\ result.left + slide_size[1] > result.new_size[1]
    /\ result.new_size[2] > slide_size[2]

\* C2 (fill coverage bound): in fill mode, for positive source and target
\* sides, the scaled size is at least the target on both axes, so the crop
\* rectangle stays inside the scaled bitmap and no output pixel is unfilled.
FillCoverageBound ==
    (Finished /\ ValidInputs /\ mode = "fill") =>
        /\ result.new_size[1] >= slide_size[1]
        /\ result.new_size[2] >= slide_size[2]
        /\ result.left + slide_size[1] <= result.new_size[1]
        /\ result.top + slide_size[2] <= result.new_size[2]
        /\ pc = "returned" =>
             \A x \in Scan(slide_size[1], 0, slide_size[1]),
                y \in Scan(slide_size[2], 0, slide_size[2]) :
                 Pixel(result.bitmap, x, y)[1] = "source"

\* C3 (fit coverage bound): in fit mode, for positive source and target
\* sides, the pasted content is no larger than the target on either axis and
\* equals it on at least one.
FitCoverageBound ==
    (pc = "returned" /\ ValidInputs /\ mode = "fit") =>
        /\ result.new_size[1] <= slide_size[1]
        /\ result.new_size[2] <= slide_size[2]
        /\ \/ result.new_size[1] = slide_size[1]
           \/ result.new_size[2] = slide_size[2]

\* C4 (degenerate scale): whenever the scaled width or height truncates to
\* 0, compose_slide raises and returns no bitmap.
DegenerateScale ==
    (/\ Finished
     /\ image[1] >= 1 /\ image[2] >= 1
     /\ result.new_size[1] = 0 \/ result.new_size[2] = 0) =>
        /\ pc = "raised"
        /\ result.status = "ValueError"
        /\ result.bitmap = NoBitmap

\* The 4000x1 source fitted into 10x10 scales to 10x0 and raises.
DegenerateWitness ==
    /\ pc = "raised" /\ mode = "fit"
    /\ image = <<4000, 1>> /\ slide_size = <<10, 10>>
    /\ result.new_size = <<10, 0>>
    /\ result.status = "ValueError"

\* C5 (invalid dimension): if a target side is <= 0 or a source side is 0,
\* compose_slide raises in both modes and returns no bitmap.
InvalidDimension ==
    (/\ Finished
     /\ \/ slide_size[1] <= 0 \/ slide_size[2] <= 0
        \/ image[1] = 0 \/ image[2] = 0) =>
        /\ pc = "raised"
        /\ result.bitmap = NoBitmap

\* clamp(f, 0, 1), as the claim states it.
Clamp01(f) ==
    IF FloatLess(f, FloatZero) THEN FloatZero
    ELSE IF FloatLess(FloatOne, f) THEN FloatOne
    ELSE f

\* C6 (focus clamping): compose_slide with focus (fx, fy) gives what it gives
\* with (clamp(fx, 0, 1), clamp(fy, 0, 1)): the same offsets, the same
\* bitmap, the same outcome; focus (-5, 99) behaves as (0, 1).
FocusClamping ==
    Finished =>
        /\ result = ComposeSlide(image, slide_size, mode, Clamp01(focus_x),
                                 Clamp01(focus_y), background_color)
        /\ (focus_x = FloatDiv(-5, 1) /\ focus_y = FloatDiv(99, 1)) =>
              result = ComposeSlide(image, slide_size, mode, FloatZero,
                                    FloatOne, background_color)

\* A fill with focus (-5, 99) and vertical overflow returned, cropped at the
\* bottom.
FocusClampingWitness ==
    /\ pc = "returned" /\ mode = "fill"
    /\ focus_x = FloatDiv(-5, 1) /\ focus_y = FloatDiv(99, 1)
    /\ result.top > 0
    /\ result.top = result.new_size[2] - slide_size[2]

\* The focus values the offsets are compared at, in increasing order of n.
ProbeFocus ==
    [n \in 1..9 |->
        CASE n = 1 -> FloatDiv(-5, 1)
          [] n = 2 -> FloatZero
          [] n = 3 -> FloatDiv(1, 10)
          [] n = 4 -> FloatDiv(3, 10)
          [] n = 5 -> FloatDiv(1, 3)
          [] n = 6 -> FloatDiv(1, 2)
          [] n = 7 -> FloatDiv(9, 10)
          [] n = 8 -> FloatOne
          [] n = 9 -> FloatDiv(99, 1)]

\* The crop offsets <<left, top>> of this state's fill at focus (f, f).
OffsetsAt(f) ==
    LET r == ComposeSlide(image, slide_size, mode, f, f, background_color)
    IN  <<r.left, r.top>>

\* C7 (focus monotonicity): in fill mode, for fixed source and target, left
\* is non-decreasing in focusX, 0 at focusX = 0 and overflowX at focusX = 1,
\* so 0 <= left <= overflowX; the same for top, focusY and overflowY.
FocusMonotonicity ==
    (pc = "returned" /\ mode = "fill") =>
        LET max_x == MaxOffset(result.new_size[1], slide_size[1])
            max_y == MaxOffset(result.new_size[2], slide_size[2])
        IN  /\ \A i \in 1..8 :
                 /\ OffsetsAt(ProbeFocus[i])[1] <= OffsetsAt(ProbeFocus[i + 1])[1]
                 /\ OffsetsAt(ProbeFocus[i])[2] <= OffsetsAt(ProbeFocus[i + 1])[2]
            /\ OffsetsAt(FloatZero) = <<0, 0>>
            /\ OffsetsAt(FloatOne) = <<max_x, max_y>>
            /\ 0 <= result.left /\ result.left <= max_x
            /\ 0 <= result.top /\ result.top <= max_y

\* A fill with horizontal overflow of several pixels returned, cropped
\* strictly between the two ends.
FocusMonotonicityWitness ==
    /\ pc = "returned" /\ mode = "fill"
    /\ result.new_size[1] - slide_size[1] >= 2
    /\ 0 < result.left
    /\ result.left < result.new_size[1] - slide_size[1]

\* The geometry of a returned fit: the paste offset is
\* floor((target - scaled) / 2) on each axis and never negative, the pasted
\* rectangle lies inside the canvas, the paddings on opposite sides differ
\* by at most 1, and every pixel outside the rectangle has the background
\* colour.
Centred ==
    LET ox == result.offset[1]
        oy == result.offset[2]
        sw == result.new_size[1]
        sh == result.new_size[2]
        tw == slide_size[1]
        th == slide_size[2]
    IN  /\ ox >= 0 /\ oy >= 0
        /\ 2 * ox <= tw - sw /\ tw - sw <= 2 * ox + 1
        /\ 2 * oy <= th - sh /\ th - sh <= 2 * oy + 1
        /\ ox + sw <= tw /\ oy + sh <= th
        /\ \A x \in Scan(tw, ox, ox + sw), y \in Scan(th, oy, oy + sh) :
             IF ox <= x /\ x < ox + sw /\ oy <= y /\ y < oy + sh
             THEN Pixel(result.bitmap, x, y) = <<"source", x - ox, y - oy>>
             ELSE Pixel(result.bitmap, x, y) = background_color

\* C8 (fit centring), as claimed: in fit mode, for valid source and target,
\* the pasted content is centred as above, and 4000x2000 into 3840x2160
\* scales to 3840x1920 at offset (0, 60), 60 px of background above and
\* below.
FitCentringAsClaimed ==
    (pc = "returned" /\ ValidInputs /\ mode = "fit") =>
        /\ Centred
        /\ (image = <<4000, 2000>> /\ slide_size = <<3840, 2160>>) =>
             /\ result.new_size = <<3840, 1920>>
             /\ result.offset = <<0, 60>>

\* C8 (fit centring), amended: in fit mode, for valid source and target, the
\* pasted content is centred as above, and 4000x2000 into 3840x2160 scales
\* to 3840x1920 at offset (0, 120), 120 px of background above and below
\* (240 px of padding in all).
FitCentring ==
    (pc = "returned" /\ ValidInputs /\ mode = "fit") =>
        /\ Centred
        /\ (image = <<4000, 2000>> /\ slide_size = <<3840, 2160>>) =>
             /\ result.new_size = <<3840, 1920>>
             /\ result.offset = <<0, 120>>
             /\ slide_size[2] - result.new_size[2] - result.offset[2] = 120

\* The documented fit scenario returned, letterboxed 120 px above and below
\* in (5, 5, 8).
FitCentringWitness ==
    /\ pc = "returned" /\ mode = "fit"
    /\ image = <<4000, 2000>> /\ slide_size = <<3840, 2160>>
    /\ background_color = <<5, 5, 8>>
    /\ result.offset = <<0, 120>>
    /\ Pixel(result.bitmap, 0, 119) = <<5, 5, 8>>
    /\ Pixel(result.bitmap, 0, 120) = <<"source", 0, 0>>
    /\ Pixel(result.bitmap, 3839, 2039) = <<"source", 3839, 1919>>
    /\ Pixel(result.bitmap, 3839, 2040) = <<5, 5, 8>>

\* C9 (aspect-match convergence): if w * th = h * tw, fit and fill scale to
\* exactly the target, with overflow, crop offset and paste offset all 0, so
\* both modes return the same unpadded, uncropped bitmap.
AspectMatchConvergence ==
    (Finished /\ ValidInputs
     /\ image[1] * slide_size[2] = image[2] * slide_size[1]) =>
        LET fit  == ComposeSlide(image, slide_size, "fit", focus_x, focus_y,
                                 background_color)
            fill == ComposeSlide(image, slide_size, "fill", focus_x, focus_y,
                                 background_color)
        IN  /\ pc = "returned"
            /\ result.new_size = slide_size
            /\ fit.new_size = fill.new_size
            /\ result.left = 0 /\ result.top = 0
            /\ result.offset = <<0, 0>>
            /\ \A x \in Scan(slide_size[1], 0, slide_size[1]),
                  y \in Scan(slide_size[2], 0, slide_size[2]) :
                 /\ Pixel(fit.bitmap, x, y) = <<"source", x, y>>
                 /\ Pixel(fill.bitmap, x, y) = <<"source", x, y>>

(***************************************************************************)
(* Properties of html_to_slide_image (checked under SpecCli).              *)
(***************************************************************************)
FileExists == output_file.state # "absent"

\* C10 (overwrite or skip): a call made with overwrite false while the
\* output exists goes no further than the skip: no browser launch, no
\* compose_slide call, the file untouched.  The file changes only in the
\* save step, reached after capture and composition succeeded, and then
\* only if it did not exist or overwrite is true.
OverwriteOrSkip ==
    [][/\ (pc \in Returned /\ FileExists /\ ~overwrite') =>
            /\ pc' \in {"skipped", "raised"}
            /\ launches' = launches /\ composed' = composed
            /\ output_file' = output_file
       /\ (pc \in Returned) => (pc' # "compose" /\ pc' # "save")
       /\ (FileExists /\ ~overwrite) =>
            /\ launches' = launches /\ composed' = composed
            /\ output_file' = output_file
       /\ (output_file' # output_file) =>
            /\ pc = "save"
            /\ result.status = "ok"
            /\ image \in CliSources
            /\ launches >= 1 /\ composed >= 1
            /\ ~FileExists \/ overwrite
      ]_vars

\* A call skipped over a PNG that an earlier call wrote.
OverwriteOrSkipWitness ==
    /\ pc = "skipped" /\ ~overwrite
    /\ output_file.state = "png"
    /\ launches >= 1 /\ composed >= 1

====
